---- MODULE Spec2Model ----
(***************************************************************************)
(* gokv: a replicated key-value node.  Each node keeps an in-memory map,   *)
(* a write-ahead log (wal.log), a checkpoint (in memory and in             *)
(* checkpoint.txt) and a persistent store (badger) that a background       *)
(* goroutine refreshes from the log.                                       *)
(*                                                                         *)
(* Strings of the program are sequences of one-character strings, so that  *)
(* formatting (fmt.Sprintf), strings.Split, bufio.Scanner and bytes.Count  *)
(* are modelled by what they do on the bytes of the files.                 *)
(***************************************************************************)
EXTENDS Integers, Sequences, FiniteSets, TLC

(***************************************************************************)
(* Bounds of the model                                                     *)
(***************************************************************************)
\* number of lines wal.log may grow to
MaxLog == 2

(***************************************************************************)
(* Program constants                                                       *)
(***************************************************************************)
MaxKeyLen == 50
MaxValueLen == 100

StatusOK == 200
StatusBadRequest == 400
StatusNotFound == 404
StatusMethodNotAllowed == 405
StatusInternalServerError == 500

(***************************************************************************)
(* The cluster: cluster.txt lists the base URL of every node, CNAME is the *)
(* container name of a node.                                               *)
(***************************************************************************)
Nodes == {"A", "B"}

\* the node whose storage engine is explored in full by Spec
EngineNodes == {"A"}

Workers == {"w1", "w2"}

Cname(n) == n

Addr(n) == "http://" \o n \o ":8080"

ClusterTxt == <<Addr("A"), Addr("B")>>

\* the hosts an address of cluster.txt can name: the nodes, and a host C
\* whose program is not followed and that answers /ping when it is reachable
Hosts == Nodes \cup {"C"}

\* a cluster.txt of three lines
WideClusterTxt == <<Addr("A"), Addr("B"), Addr("C")>>

NodeOf(a) == CHOOSE n \in Hosts : Addr(n) = a

(***************************************************************************)
(* Inputs of the requests                                                  *)
(***************************************************************************)
Rep(n, ch) == [i \in 1..n |-> ch]

EmptyString == <<>>

Keys == {EmptyString, <<"a">>}

Values == {EmptyString, <<"1">>, <<"2">>}

\* the keys and values of the requests Spec explores
EngineKeys == {<<"a">>}

EngineValues == {<<"1">>, <<"2">>}

LongKey == Rep(MaxKeyLen + 1, "k")

LongValue == Rep(MaxValueLen + 1, "v")

\* url.Values: the list of values of a query parameter, empty when missing
Queries(S) == {<<>>} \cup {<<x>> : x \in S}

KeyQueries == Queries(Keys \cup {LongKey})

ValueQueries == Queries(Values \cup {LongValue})

Methods == {"GET", "POST"}

(***************************************************************************)
(* Text conversions                                                        *)
(***************************************************************************)
Digits == <<"0", "1", "2", "3", "4", "5", "6", "7", "8", "9">>

RECURSIVE Itoa(_)
\* fmt.Sprintf("%d", n) for n >= 0
Itoa(n) == IF n < 10 THEN <<Digits[n + 1]>>
           ELSE Itoa(n \div 10) \o <<Digits[(n % 10) + 1]>>

IsDigit(ch) == \E d \in 1..10 : Digits[d] = ch

DigitVal(ch) == (CHOOSE d \in 1..10 : Digits[d] = ch) - 1

\* strings.TrimSpace restricted to the white space the files can hold
RECURSIVE TrimSpace(_)
TrimSpace(s) ==
    IF s = <<>> THEN s
    ELSE IF Head(s) \in {" ", "\n", "\r", "\t"} THEN TrimSpace(Tail(s))
    ELSE IF s[Len(s)] \in {" ", "\n", "\r", "\t"} THEN TrimSpace(SubSeq(s, 1, Len(s) - 1))
    ELSE s

\* strconv.Atoi on an unsigned decimal: the error case is a non-number
AtoiOk(s) == s # <<>> /\ \A i \in 1..Len(s) : IsDigit(s[i])

RECURSIVE AtoiVal(_)
AtoiVal(s) == IF s = <<>> THEN 0
              ELSE 10 * AtoiVal(SubSeq(s, 1, Len(s) - 1)) + DigitVal(s[Len(s)])

SET == <<"S", "E", "T">>

DELETE == <<"D", "E", "L", "E", "T", "E">>

Comma == <<",">>

Newline == <<"\n">>

\* the log entry of wal.UpdateLog
FormatEntry(l, operation, key, value) ==
    IF operation = SET
    THEN Itoa(l) \o Comma \o operation \o Comma \o key \o Comma \o value
    ELSE Itoa(l) \o Comma \o operation \o Comma \o key

\* strings.Split(s, sep) for a one-character separator: with k separators
\* in s there are k + 1 fields, the text before the first separator, between
\* two successive ones, and after the last
Split(s, sep) ==
    LET at(k) == IF k = 0 THEN 0
                 ELSE IF k > Cardinality({i \in 1..Len(s) : s[i] = sep}) THEN Len(s) + 1
                 ELSE CHOOSE i \in 1..Len(s) :
                          s[i] = sep /\ Cardinality({j \in 1..i : s[j] = sep}) = k
    IN  [k \in 1..(Cardinality({i \in 1..Len(s) : s[i] = sep}) + 1) |->
            SubSeq(s, at(k - 1) + 1, at(k) - 1)]

DropCR(s) == IF s # <<>> /\ s[Len(s)] = "\r" THEN SubSeq(s, 1, Len(s) - 1) ELSE s

\* the lines bufio.Scanner yields (bufio.ScanLines): split at "\n", a
\* trailing "\r" dropped, a last line without "\n" yielded when not empty
\* (the split is bound as a value, so that it is computed once)
ScanLines(data) ==
    LET Kept(parts) == IF parts[Len(parts)] = <<>> THEN SubSeq(parts, 1, Len(parts) - 1)
                       ELSE parts
    IN  CHOOSE lines \in {[i \in 1..Len(kept) |-> DropCR(kept[i])] :
                              kept \in {Kept(parts) : parts \in {Split(data, "\n")}}} : TRUE

\* bytes.Count(data, "\n")
CountNewlines(data) == Cardinality({i \in 1..Len(data) : data[i] = "\n"})

(***************************************************************************)
(* Maps: the in-memory map of memStore and the key space of badger         *)
(***************************************************************************)
EmptyMap == [x \in {} |-> EmptyString]

\* m.mp[key]: the zero value "" for a missing key
MapGet(m, key) == IF key \in DOMAIN m THEN m[key] ELSE EmptyString

MapSet(m, key, value) == [x \in (DOMAIN m) \cup {key} |-> IF x = key THEN value ELSE m[x]]

MapDelete(m, key) == [x \in (DOMAIN m) \ {key} |-> m[x]]

(***************************************************************************)
(* State                                                                   *)
(***************************************************************************)
VARIABLES
    wal,         \* wal.log of each node: the bytes of the file
    ckptFile,    \* checkpoint.txt of each node: the bytes of the file
    db,          \* the badger store of each node
    running,     \* whether the process of the node is up
    lsn,         \* wal.lsn
    checkpoint,  \* wal.checkpoint
    walLock,     \* wal.mutex: "" when free, else the worker holding it
    mp,          \* memStore.mp
    peers,       \* nodes.nodes
    h,           \* the request each HTTP worker goroutine is serving
    comp,        \* the goroutine that runs UpdateDatabase every 5 seconds
    resp,        \* the last HTTP response the node wrote
    reach,       \* environment: whether a host answers requests
    exited,      \* what ended the process of a node that is down
    ack,         \* history: per key, the last write or delete answered 200
    clean,       \* history: the acknowledged writes ran one after the other
    prev,        \* history: the store and checkpoint the last complete cycle of
                 \* UpdateDatabase left, while wal.log is as it was then
    obs          \* history: the bodies /internal/update received, the lines each
                 \* transaction of UpdateDatabase committed, and whether the
                 \* process ended between a commit and the write of checkpoint.txt

durable == <<wal, ckptFile, db>>

volatile == <<running, lsn, checkpoint, walLock, mp, peers, h, comp, resp, exited>>

history == <<ack, clean, prev, obs>>

vars == <<wal, ckptFile, db, running, lsn, checkpoint, walLock, mp, peers, h,
          comp, resp, exited, reach, ack, clean, prev, obs>>

IdleWorker == [pc |-> "idle", op |-> EmptyString, key |-> EmptyString, value |-> EmptyString]

IdleComp == [pc |-> "idle", c |-> 0, lines |-> <<>>]

NoResp == [status |-> 0, body |-> EmptyString]

Response(status, body) == [status |-> status, body |-> body]

NoAck == <<"none">>

AckSet(value) == <<"set", value>>

AckDelete == <<"delete">>

NoPrev == [valid |-> FALSE, db |-> EmptyMap, checkpoint |-> 0, ckptFile |-> EmptyString]

Snapshot(store, c, file) == [valid |-> TRUE, db |-> store, checkpoint |-> c, ckptFile |-> file]

\* delivered: how often each body was posted to /internal/update (0, 1, or 2
\* for twice or more); folded: per line of wal.log, in how many committed
\* transactions of UpdateDatabase it was (0, 1, or 2 for twice or more),
\* kept while the process of Init runs (crashfree); recovering: the last
\* process ended after a commit and before checkpoint.txt was written, and
\* no transaction was committed since; recovered: the last transaction
\* committed was the first one after such an end; posted: the pairs of a
\* peer and the text of an entry the node has posted to /internal/update of
\* that peer (no handler of Server and no function of network posts)
NoObs == [delivered |-> <<>>, crashfree |-> TRUE, folded |-> <<>>, recovering |-> FALSE,
          recovered |-> FALSE, posted |-> {}]

(***************************************************************************)
(* Startup                                                                 *)
(***************************************************************************)
\* helper.ValidateFiles on a new node: an empty wal.log, "0" in checkpoint.txt
NewWal == <<>>

NewCkptFile == <<"0">>

\* InitLog: the resume LSN is the number of line breaks of wal.log plus one
ResumeLSN(data) == CountNewlines(data) + 1

\* InitLog: an empty checkpoint.txt counts as "0"
CheckpointText(data) == TrimSpace(IF data = <<>> THEN <<"0">> ELSE data)

LoadCheckpoint(data) == AtoiVal(CheckpointText(data))

\* badgerDB.ScanDatabase into the new map of InitMap
ScanDatabase(store) == [k \in DOMAIN store |-> store[k]]

\* network.Init: every line of cluster.txt but the node's own address
SelfAddr(n) == IF Cname(n) # "" THEN Addr(Cname(n)) ELSE ""

\* a variant of ReadCluster without the comparison with the own address
ReadClusterKeepsSelf(txt, n) == txt

\* network.Init: the lines of cluster.txt but the own address
ReadCluster(txt, n) == SelectSeq(txt, LAMBDA a : a # SelfAddr(n))

InitPeers(n) == ReadCluster(ClusterTxt, n)

\* the state after main has started on every node, cluster.txt being txt
InitFrom(txt) ==
    /\ wal = [n \in Nodes |-> NewWal]
    /\ ckptFile = [n \in Nodes |-> NewCkptFile]
    /\ db = [n \in Nodes |-> EmptyMap]
    /\ running = [n \in Nodes |-> TRUE]
    /\ lsn = [n \in Nodes |-> ResumeLSN(NewWal)]
    /\ checkpoint = [n \in Nodes |-> LoadCheckpoint(NewCkptFile)]
    /\ walLock = [n \in Nodes |-> ""]
    /\ mp = [n \in Nodes |-> ScanDatabase(EmptyMap)]
    /\ peers = [n \in Nodes |-> ReadCluster(txt, n)]
    /\ h = [n \in Nodes |-> [w \in Workers |-> IdleWorker]]
    /\ comp = [n \in Nodes |-> IdleComp]
    /\ resp = [n \in Nodes |-> NoResp]
    /\ reach = [m \in Hosts |-> TRUE]
    /\ ack = [n \in Nodes |-> [k \in Keys |-> NoAck]]
    /\ exited = [n \in Nodes |-> ""]
    /\ clean = [n \in Nodes |-> TRUE]
    /\ prev = [n \in Nodes |-> NoPrev]
    /\ obs = [n \in Nodes |-> NoObs]

Init == InitFrom(ClusterTxt)

\* main: the files are loaded and then the server listens
StartupFrom(txt, n) ==
    /\ ~running[n]
    /\ AtoiOk(CheckpointText(ckptFile[n]))
    /\ running' = [running EXCEPT ![n] = TRUE]
    /\ mp' = [mp EXCEPT ![n] = ScanDatabase(db[n])]
    /\ lsn' = [lsn EXCEPT ![n] = ResumeLSN(wal[n])]
    /\ checkpoint' = [checkpoint EXCEPT ![n] = LoadCheckpoint(ckptFile[n])]
    /\ peers' = [peers EXCEPT ![n] = ReadCluster(txt, n)]
    /\ exited' = [exited EXCEPT ![n] = ""]
    /\ UNCHANGED <<durable, walLock, h, comp, resp, reach, history>>

Startup(n) == StartupFrom(ClusterTxt, n)

\* The process ends (a crash, a kill, or os.Exit): its memory is gone.  lsn
\* and checkpoint keep the last value the process held, so that the values
\* of successive processes can be compared.
Terminated(n, cause) ==
    /\ running' = [running EXCEPT ![n] = FALSE]
    /\ exited' = [exited EXCEPT ![n] = cause]
    /\ prev' = [prev EXCEPT ![n] = NoPrev]
    /\ walLock' = [walLock EXCEPT ![n] = ""]
    /\ mp' = [mp EXCEPT ![n] = EmptyMap]
    /\ peers' = [peers EXCEPT ![n] = <<>>]
    /\ h' = [h EXCEPT ![n] = [w \in Workers |-> IdleWorker]]
    /\ comp' = [comp EXCEPT ![n] = IdleComp]
    /\ resp' = [resp EXCEPT ![n] = NoResp]
    /\ clean' = [clean EXCEPT ![n] = clean[n] /\ \A w \in Workers : h[n][w].pc = "idle"]
    /\ obs' = [obs EXCEPT ![n].crashfree = FALSE,
                          ![n].folded = <<>>,
                          ![n].recovering = @ \/ comp[n].pc \in {"setckpt", "truncate", "write"}]
    /\ UNCHANGED <<lsn, checkpoint, reach, ack>>

\* the process is killed, or the machine stops
Crash(n) ==
    /\ running[n]
    /\ Terminated(n, "crash")
    /\ UNCHANGED durable

(***************************************************************************)
(* The write-ahead log                                                     *)
(***************************************************************************)
\* wal.UpdateLog refuses an operation that is neither SET nor DELETE
ValidOperation(operation) == operation = SET \/ operation = DELETE

\* wal.UpdateLog, the lock taken: the entry is formatted with the current
\* LSN and written with its line break in one write to the file opened with
\* O_APPEND.  The worker w keeps wal.mutex.
UpdateLogWrite(n, w, operation, key, value) ==
    /\ ValidOperation(operation)
    /\ walLock[n] = ""
    /\ Len(ScanLines(wal[n])) < MaxLog
    /\ wal' = [wal EXCEPT ![n] = @ \o FormatEntry(lsn[n], operation, key, value) \o Newline]
    /\ walLock' = [walLock EXCEPT ![n] = w]
    /\ h' = [h EXCEPT ![n][w] = [pc |-> "locked", op |-> operation, key |-> key, value |-> value]]
    /\ clean' = [clean EXCEPT ![n] = clean[n] /\ \A x \in Workers : h[n][x].pc = "idle"]
    /\ prev' = [prev EXCEPT ![n] = NoPrev]
    /\ UNCHANGED obs

\* a variant of UpdateLogReturn that leaves a gap in the LSNs
UpdateLogReturnSkipsLSN(n, w) ==
    /\ running[n]
    /\ h[n][w].pc = "locked"
    /\ lsn' = [lsn EXCEPT ![n] = @ + 2]
    /\ walLock' = [walLock EXCEPT ![n] = ""]
    /\ h' = [h EXCEPT ![n][w].pc = "apply"]
    /\ UNCHANGED <<durable, running, checkpoint, mp, peers, comp, resp, exited, reach, history>>

\* wal.UpdateLog: l.lsn++ and the deferred Unlock
UpdateLogReturn(n, w) ==
    /\ running[n]
    /\ h[n][w].pc = "locked"
    /\ lsn' = [lsn EXCEPT ![n] = @ + 1]
    /\ walLock' = [walLock EXCEPT ![n] = ""]
    /\ h' = [h EXCEPT ![n][w].pc = "apply"]
    /\ UNCHANGED <<durable, running, checkpoint, mp, peers, comp, resp, exited, reach, history>>

(***************************************************************************)
(* The HTTP handlers of Server                                             *)
(***************************************************************************)
\* a variant of ValidateSet without the check of the length of the value
ValidateSetKeyOnly(method, KeyQuery, ValueQuery) ==
    IF method # "GET" THEN StatusMethodNotAllowed
    ELSE IF Len(KeyQuery) = 0 THEN StatusNotFound
    ELSE IF Len(ValueQuery) = 0 THEN StatusNotFound
    ELSE IF Len(KeyQuery[1]) > MaxKeyLen THEN StatusBadRequest
    ELSE 0

\* Server.SetRequest up to the call of UpdateLog: the status of the early
\* return, 0 when the request goes on
ValidateSet(method, KeyQuery, ValueQuery) ==
    IF method # "GET" THEN StatusMethodNotAllowed
    ELSE IF Len(KeyQuery) = 0 THEN StatusNotFound
    ELSE IF Len(ValueQuery) = 0 THEN StatusNotFound
    ELSE IF Len(KeyQuery[1]) > MaxKeyLen THEN StatusBadRequest
    ELSE IF Len(ValueQuery[1]) > MaxValueLen THEN StatusBadRequest
    ELSE 0

\* Server.DeleteRequest up to the call of UpdateLog
ValidateDelete(method, KeyQuery) ==
    IF method # "GET" THEN StatusMethodNotAllowed
    ELSE IF Len(KeyQuery) = 0 THEN StatusNotFound
    ELSE 0

\* a handler that returns at once: the response is all it changes
Reply(n, w, status, body) ==
    /\ resp' = [resp EXCEPT ![n] = Response(status, body)]
    /\ UNCHANGED <<durable, running, lsn, checkpoint, walLock, mp, peers, h, comp, exited, reach, history>>

\* a variant of SetRequest that sets the map before it calls UpdateLog and
\* leaves it set when UpdateLog fails
SetRequestMapFirst(n, w, method, KeyQuery, ValueQuery) ==
    /\ running[n]
    /\ h[n][w].pc = "idle"
    /\ LET status == ValidateSet(method, KeyQuery, ValueQuery)
       IN  \/ /\ status # 0
              /\ Reply(n, w, status, EmptyString)
           \/ /\ status = 0
              /\ walLock[n] = ""
              /\ mp' = [mp EXCEPT ![n] = MapSet(@, KeyQuery[1], ValueQuery[1])]
              /\ resp' = [resp EXCEPT ![n] = Response(StatusInternalServerError, EmptyString)]
              /\ UNCHANGED <<durable, running, lsn, checkpoint, walLock, peers, h, comp,
                             exited, reach, history>>
           \/ /\ status = 0
              /\ mp' = [mp EXCEPT ![n] = MapSet(@, KeyQuery[1], ValueQuery[1])]
              /\ UpdateLogWrite(n, w, SET, KeyQuery[1], ValueQuery[1])
              /\ UNCHANGED <<ckptFile, db, running, lsn, checkpoint, peers, comp,
                             resp, exited, reach, ack>>

\* Server.SetRequest: the early returns, or UpdateLog: either it fails (the
\* file cannot be opened or written) and the answer is 500, or the entry is
\* written
SetRequest(n, w, method, KeyQuery, ValueQuery) ==
    /\ running[n]
    /\ h[n][w].pc = "idle"
    /\ LET status == ValidateSet(method, KeyQuery, ValueQuery)
       IN  \/ /\ status # 0
              /\ Reply(n, w, status, EmptyString)
           \/ /\ status = 0
              /\ walLock[n] = ""
              /\ Reply(n, w, StatusInternalServerError, EmptyString)
           \/ /\ status = 0
              /\ UpdateLogWrite(n, w, SET, KeyQuery[1], ValueQuery[1])
              /\ UNCHANGED <<ckptFile, db, running, lsn, checkpoint, mp, peers, comp,
                             resp, exited, reach, ack>>

\* Server.DeleteRequest, as SetRequest
DeleteRequest(n, w, method, KeyQuery) ==
    /\ running[n]
    /\ h[n][w].pc = "idle"
    /\ LET status == ValidateDelete(method, KeyQuery)
       IN  \/ /\ status # 0
              /\ Reply(n, w, status, EmptyString)
           \/ /\ status = 0
              /\ walLock[n] = ""
              /\ Reply(n, w, StatusInternalServerError, EmptyString)
           \/ /\ status = 0
              /\ UpdateLogWrite(n, w, DELETE, KeyQuery[1], EmptyString)
              /\ UNCHANGED <<ckptFile, db, running, lsn, checkpoint, mp, peers, comp,
                             resp, exited, reach, ack>>

\* a variant of ApplyToMap in which a delete leaves the map as it is
ApplyToMapKeepsDeleted(m, operation, key, value) ==
    IF operation = SET THEN MapSet(m, key, value) ELSE m

\* what the handler does to the map once UpdateLog returned without error
ApplyToMap(m, operation, key, value) ==
    IF operation = SET THEN MapSet(m, key, value) ELSE MapDelete(m, key)

AckOf(operation, value) == IF operation = SET THEN AckSet(value) ELSE AckDelete

\* a variant of ApplyRequest that sends the entry to the peers once the
\* map is set and, when a peer does not answer, answers 400 and ends the
\* process
ApplyRequestThenPropagate(n, w) ==
    /\ running[n]
    /\ h[n][w].pc = "apply"
    /\ IF \E i \in 1..Len(peers[n]) : ~(reach[NodeOf(peers[n][i])] /\ running[NodeOf(peers[n][i])])
       THEN /\ Terminated(n, "handler")
            /\ UNCHANGED durable
       ELSE /\ mp' = [mp EXCEPT ![n] = ApplyToMap(@, h[n][w].op, h[n][w].key, h[n][w].value)]
            /\ resp' = [resp EXCEPT ![n] = Response(StatusOK, EmptyString)]
            /\ h' = [h EXCEPT ![n][w] = IdleWorker]
            /\ ack' = [ack EXCEPT ![n][h[n][w].key] = AckOf(h[n][w].op, h[n][w].value)]
            /\ UNCHANGED <<durable, running, lsn, checkpoint, walLock, peers, comp, exited,
                           reach, clean, prev, obs>>

\* Server.SetRequest / DeleteRequest after UpdateLog: s.mp.SetValue or
\* s.mp.DeleteValue and the answer 200
ApplyRequest(n, w) ==
    /\ running[n]
    /\ h[n][w].pc = "apply"
    /\ mp' = [mp EXCEPT ![n] = ApplyToMap(@, h[n][w].op, h[n][w].key, h[n][w].value)]
    /\ resp' = [resp EXCEPT ![n] = Response(StatusOK, EmptyString)]
    /\ h' = [h EXCEPT ![n][w] = IdleWorker]
    /\ ack' = [ack EXCEPT ![n][h[n][w].key] = AckOf(h[n][w].op, h[n][w].value)]
    /\ UNCHANGED <<durable, running, lsn, checkpoint, walLock, peers, comp, exited, reach,
                   clean, prev, obs>>

\* a variant of GetResponse that answers 200 for every key the map holds
GetResponseServesEmpty(m, method, KeyQuery) ==
    LET key == IF Len(KeyQuery) = 0 THEN EmptyString ELSE KeyQuery[1]
    IN  IF method # "GET" THEN [status |-> StatusMethodNotAllowed, body |-> EmptyString]
        ELSE IF key = EmptyString THEN [status |-> StatusNotFound, body |-> EmptyString]
        ELSE IF key \in DOMAIN m THEN [status |-> StatusOK, body |-> m[key]]
        ELSE [status |-> StatusNotFound, body |-> EmptyString]

\* Server.GetRequest: the status and the body of the answer
GetResponse(m, method, KeyQuery) ==
    LET key   == IF Len(KeyQuery) = 0 THEN EmptyString ELSE KeyQuery[1]
        value == MapGet(m, key)
    IN  IF method # "GET" THEN [status |-> StatusMethodNotAllowed, body |-> EmptyString]
        ELSE IF key = EmptyString THEN [status |-> StatusNotFound, body |-> EmptyString]
        ELSE IF value # EmptyString THEN [status |-> StatusOK, body |-> value]
        ELSE [status |-> StatusNotFound, body |-> EmptyString]

GetRequest(n, w, method, KeyQuery) ==
    /\ running[n]
    /\ h[n][w].pc = "idle"
    /\ LET r == GetResponse(mp[n], method, KeyQuery)
       IN  Reply(n, w, r.status, r.body)

\* the body of a POST to /internal/update: whether it is the JSON of a
\* map[string]string, and its "update" member
UpdateBodies == {[json |-> FALSE, update |-> EmptyString]}
                \cup {[json |-> TRUE, update |-> FormatEntry(1, SET, k, v)] :
                        k \in Keys \ {EmptyString}, v \in Values \ {EmptyString}}

\* api.InternalUpdateRequest: the body is decoded and nothing is done with it
InternalUpdateStatus(method, body) ==
    IF method # "POST" THEN StatusMethodNotAllowed
    ELSE IF ~body.json THEN StatusBadRequest
    ELSE StatusOK

\* history: how often the body was posted to the node, 2 for twice or more
Delivered(n, update) ==
    IF update \in DOMAIN obs[n].delivered THEN obs[n].delivered[update] ELSE 0

Deliver(n, method, body) ==
    IF InternalUpdateStatus(method, body) = StatusOK
    THEN [obs EXCEPT ![n].delivered =
              MapSet(@, body.update, IF Delivered(n, body.update) = 0 THEN 1 ELSE 2)]
    ELSE obs

\* a variant of InternalUpdateRequest that appends the "update" member of
\* every body it receives to wal.log and sets the map from it
InternalUpdateRequestAppends(n, w, method, body) ==
    /\ running[n]
    /\ h[n][w].pc = "idle"
    /\ walLock[n] = ""
    /\ Len(ScanLines(wal[n])) < MaxLog
    /\ resp' = [resp EXCEPT ![n] = Response(InternalUpdateStatus(method, body), EmptyString)]
    /\ obs' = Deliver(n, method, body)
    /\ IF InternalUpdateStatus(method, body) = StatusOK
       THEN /\ wal' = [wal EXCEPT ![n] = @ \o body.update \o Newline]
            /\ mp' = [mp EXCEPT ![n] = MapSet(@, Split(body.update, ",")[3],
                                                 Split(body.update, ",")[4])]
       ELSE UNCHANGED <<wal, mp>>
    /\ UNCHANGED <<ckptFile, db, running, lsn, checkpoint, walLock, peers, h, comp, exited,
                   reach, ack, clean, prev>>

\* a variant of InternalUpdateRequest that hands the entry it received to
\* every peer of its own list
InternalUpdateRequestRepropagates(n, w, method, body) ==
    /\ running[n]
    /\ h[n][w].pc = "idle"
    /\ resp' = [resp EXCEPT ![n] = Response(InternalUpdateStatus(method, body), EmptyString)]
    /\ obs' = IF InternalUpdateStatus(method, body) = StatusOK
              THEN [Deliver(n, method, body) EXCEPT
                       ![n].posted = @ \cup {<<peers[n][i], body.update>> : i \in 1..Len(peers[n])}]
              ELSE obs
    /\ UNCHANGED <<durable, running, lsn, checkpoint, walLock, mp, peers, h, comp, exited,
                   reach, ack, clean, prev>>

\* api.InternalUpdateRequest: the answer is all the program changes
InternalUpdateRequest(n, w, method, body) ==
    /\ running[n]
    /\ h[n][w].pc = "idle"
    /\ resp' = [resp EXCEPT ![n] = Response(InternalUpdateStatus(method, body), EmptyString)]
    /\ obs' = Deliver(n, method, body)
    /\ UNCHANGED <<durable, running, lsn, checkpoint, walLock, mp, peers, h, comp, exited,
                   reach, ack, clean, prev>>

(***************************************************************************)
(* badgerDB.UpdateDatabase, run every 5 seconds by a goroutine of main     *)
(***************************************************************************)
RECURSIVE ScanFrom(_, _, _)
\* the scan loop: a line is skipped, and counted, while lineCount < checkpoint
ScanFrom(all, lineCount, c) ==
    IF all = <<>> THEN <<>>
    ELSE IF lineCount < c THEN ScanFrom(Tail(all), lineCount + 1, c)
    ELSE <<Head(all)>> \o ScanFrom(Tail(all), lineCount, c)

\* the Go slice line has indices 0..; line[1] of the code is line[2] here.
\* A SET line of three fields makes line[3] panic (index out of range).
LinePanics(lineString) ==
    LET line == Split(lineString, ",")
    IN  Len(line) = 3 /\ line[2] = SET

BatchPanics(lines) == \E i \in 1..Len(lines) : LinePanics(lines[i])

\* one pass of the loop inside db.Update
ApplyLine(store, lineString) ==
    LET line == Split(lineString, ",")
    IN  IF Len(line) < 3 THEN store
        ELSE IF line[2] = SET THEN MapSet(store, line[3], line[4])
        ELSE IF line[2] = DELETE THEN MapDelete(store, line[3])
        ELSE store

RECURSIVE ApplyBatch(_, _)
\* the transaction of db.Update: every line in order
ApplyBatch(store, lines) ==
    IF lines = <<>> THEN store
    ELSE ApplyBatch(ApplyLine(store, Head(lines)), Tail(lines))

\* checkpoint = checkpoint + len(lines)
NewCheckpoint(c, lines) == c + Len(lines)

\* the position in wal.log (the first line is 1) of the first line the scan
\* loop keeps: lineCount starts at 1 and is compared with the checkpoint
ScanStart(c) == IF c < 1 THEN 1 ELSE c

\* the position of the last line of the batch
ScanEnd(c, lines) == ScanStart(c) + Len(lines) - 1

\* history: the lines of a committed batch are counted once more
Fold(folded, c, lines) ==
    [i \in 1..(IF Len(folded) > ScanEnd(c, lines) THEN Len(folded) ELSE ScanEnd(c, lines)) |->
        LET old == IF i <= Len(folded) THEN folded[i] ELSE 0
        IN  IF i >= ScanStart(c) /\ i <= ScanEnd(c, lines)
            THEN (IF old = 0 THEN 1 ELSE 2)
            ELSE old]

\* os.Open("wal.log") and log.GetCheckpoint() (a read lock on wal.mutex)
UpdateDatabaseBegin(n) ==
    /\ running[n]
    /\ comp[n].pc = "idle"
    /\ walLock[n] = ""
    /\ comp' = [comp EXCEPT ![n] = [pc |-> "scan", c |-> checkpoint[n], lines |-> <<>>]]
    /\ UNCHANGED <<durable, running, lsn, checkpoint, walLock, mp, peers, h, resp, exited, reach, history>>

\* a variant of UpdateDatabaseScan that finds no line to fold
UpdateDatabaseScanSeesNothing(n) ==
    /\ running[n]
    /\ comp[n].pc = "scan"
    /\ comp' = [comp EXCEPT ![n] = IdleComp]
    /\ prev' = [prev EXCEPT ![n] = NoPrev]
    /\ UNCHANGED <<durable, running, lsn, checkpoint, walLock, mp, peers, h, resp, exited, reach,
                   ack, clean, obs>>

\* the scanner reads wal.log, no lock held; without new lines the cycle ends
UpdateDatabaseScan(n) ==
    /\ running[n]
    /\ comp[n].pc = "scan"
    /\ \E lines \in {ScanFrom(ScanLines(wal[n]), 1, comp[n].c)} :
           IF Len(lines) = 0
           THEN /\ comp' = [comp EXCEPT ![n] = IdleComp]
                /\ prev' = [prev EXCEPT ![n] = Snapshot(db[n], checkpoint[n], ckptFile[n])]
           ELSE /\ comp' = [comp EXCEPT ![n] = [pc |-> "commit", c |-> comp[n].c, lines |-> lines]]
                /\ UNCHANGED prev
    /\ UNCHANGED <<durable, running, lsn, checkpoint, walLock, mp, peers, h, resp, exited, reach,
                   ack, clean, obs>>

\* a variant of UpdateDatabaseCommit whose transaction is lost: the cycle
\* goes on to the checkpoint with nothing committed
UpdateDatabaseCommitLost(n) ==
    /\ running[n]
    /\ comp[n].pc = "commit"
    /\ comp' = [comp EXCEPT ![n].pc = "setckpt"]
    /\ UNCHANGED <<durable, running, lsn, checkpoint, walLock, mp, peers, h, resp, exited,
                   reach, history>>

\* a variant of UpdateDatabaseCommit whose transaction takes the lines of
\* the batch from the last to the first
UpdateDatabaseCommitNewestFirst(n) ==
    /\ running[n]
    /\ comp[n].pc = "commit"
    /\ db' = [db EXCEPT ![n] =
                  ApplyBatch(@, [i \in 1..Len(comp[n].lines) |->
                                    comp[n].lines[Len(comp[n].lines) + 1 - i]])]
    /\ comp' = [comp EXCEPT ![n].pc = "setckpt"]
    /\ obs' = [obs EXCEPT ![n].recovering = FALSE, ![n].recovered = obs[n].recovering]
    /\ UNCHANGED <<wal, ckptFile, running, lsn, checkpoint, walLock, mp, peers, h,
                   resp, exited, reach, ack, clean, prev>>

\* d.db.Update: the batch is committed as one transaction; a panic inside
\* the transaction ends the process and commits nothing
UpdateDatabaseCommit(n) ==
    /\ running[n]
    /\ comp[n].pc = "commit"
    /\ IF BatchPanics(comp[n].lines)
       THEN /\ Terminated(n, "panic")
            /\ UNCHANGED durable
       ELSE /\ db' = [db EXCEPT ![n] = ApplyBatch(@, comp[n].lines)]
            /\ comp' = [comp EXCEPT ![n].pc = "setckpt"]
            /\ obs' = [obs EXCEPT ![n].folded = IF obs[n].crashfree
                                                THEN Fold(@, comp[n].c, comp[n].lines)
                                                ELSE @,
                                  ![n].recovering = FALSE,
                                  ![n].recovered = obs[n].recovering]
            /\ UNCHANGED <<wal, ckptFile, running, lsn, checkpoint, walLock, mp, peers, h,
                           resp, exited, reach, ack, clean, prev>>

\* a variant of UpdateDatabaseSetCheckpoint that does not take wal.mutex
UpdateDatabaseSetCheckpointUnlocked(n) ==
    /\ running[n]
    /\ comp[n].pc = "setckpt"
    /\ checkpoint' = [checkpoint EXCEPT ![n] = comp[n].c + Len(comp[n].lines)]
    /\ comp' = [comp EXCEPT ![n].pc = "truncate"]
    /\ UNCHANGED <<durable, running, lsn, walLock, mp, peers, h, resp, exited, reach, history>>

\* log.SetCheckpoint(checkpoint) (the write lock on wal.mutex)
UpdateDatabaseSetCheckpoint(n) ==
    /\ running[n]
    /\ comp[n].pc = "setckpt"
    /\ walLock[n] = ""
    /\ checkpoint' = [checkpoint EXCEPT ![n] = NewCheckpoint(comp[n].c, comp[n].lines)]
    /\ comp' = [comp EXCEPT ![n].pc = "truncate"]
    /\ UNCHANGED <<durable, running, lsn, walLock, mp, peers, h, resp, exited, reach, history>>

\* os.WriteFile("checkpoint.txt"): the file is opened with O_TRUNC ...
UpdateDatabaseTruncate(n) ==
    /\ running[n]
    /\ comp[n].pc = "truncate"
    /\ ckptFile' = [ckptFile EXCEPT ![n] = <<>>]
    /\ comp' = [comp EXCEPT ![n].pc = "write"]
    /\ UNCHANGED <<wal, db, running, lsn, checkpoint, walLock, mp, peers, h, resp, exited, reach, history>>

\* a variant of UpdateDatabaseWrite that drops from wal.log the lines the
\* checkpoint covers
UpdateDatabaseWriteTrimsLog(n) ==
    /\ running[n]
    /\ comp[n].pc = "write"
    /\ ckptFile' = [ckptFile EXCEPT ![n] = Itoa(NewCheckpoint(comp[n].c, comp[n].lines))]
    /\ wal' = [wal EXCEPT ![n] = <<>>]
    /\ comp' = [comp EXCEPT ![n] = IdleComp]
    /\ prev' = [prev EXCEPT ![n] = NoPrev]
    /\ UNCHANGED <<db, running, lsn, checkpoint, walLock, mp, peers, h, resp, exited, reach,
                   ack, clean, obs>>

\* ... and the decimal text of the checkpoint is written; the cycle ends
UpdateDatabaseWrite(n) ==
    /\ running[n]
    /\ comp[n].pc = "write"
    /\ ckptFile' = [ckptFile EXCEPT ![n] = Itoa(NewCheckpoint(comp[n].c, comp[n].lines))]
    /\ comp' = [comp EXCEPT ![n] = IdleComp]
    /\ prev' = [prev EXCEPT ![n] =
                    IF ScanFrom(ScanLines(wal[n]), 1, comp[n].c) = comp[n].lines
                    THEN Snapshot(db[n], checkpoint[n], ckptFile'[n])
                    ELSE NoPrev]
    /\ UNCHANGED <<wal, db, running, lsn, checkpoint, walLock, mp, peers, h, resp, exited, reach,
                   ack, clean, obs>>

\* a variant of UpdateDatabaseError in which a transaction that fails has
\* committed the first line of its batch
UpdateDatabaseErrorPartial(n) ==
    /\ running[n]
    /\ comp[n].pc \in {"idle", "scan", "commit", "truncate", "write"}
    /\ Terminated(n, "UpdateDatabase")
    /\ IF comp[n].pc = "commit"
       THEN /\ db' = [db EXCEPT ![n] = ApplyLine(@, Head(comp[n].lines))]
            /\ UNCHANGED <<wal, ckptFile>>
       ELSE UNCHANGED durable

\* UpdateDatabase returns an error (wal.log cannot be opened or read, the
\* transaction fails, checkpoint.txt cannot be opened or written): the loop
\* of main closes the database and calls os.Exit(1)
UpdateDatabaseError(n) ==
    /\ running[n]
    /\ comp[n].pc \in {"idle", "scan", "commit", "truncate", "write"}
    /\ Terminated(n, "UpdateDatabase")
    /\ UNCHANGED durable

(***************************************************************************)
(* Membership                                                              *)
(***************************************************************************)
\* a GET of /ping is answered 200 by a running node that can be reached
Answers(a) == reach[NodeOf(a)] /\ (NodeOf(a) \in Nodes => running[NodeOf(a)])

\* nodes.Ping, newNodes: the peers of the list that answer 200
PingAnswered(n) == SelectSeq(peers[n], Answers)

\* nodes.Ping, the value returned: false when no peer answered
PingReturn(n) == Len(PingAnswered(n)) # 0

\* nodes.Ping, n.nodes when Ping returns: the return of false comes before
\* the assignment of newNodes
PingNodes(n) == IF Len(PingAnswered(n)) = 0 THEN peers[n] ELSE PingAnswered(n)

\* nodes.Ping and the loop of main: the peers that answer are kept; when
\* Ping returns false main calls os.Exit(1)
Ping(n) ==
    /\ running[n]
    /\ IF ~PingReturn(n)
       THEN /\ Terminated(n, "Ping")
            /\ UNCHANGED durable
       ELSE /\ peers' = [peers EXCEPT ![n] = PingNodes(n)]
            /\ UNCHANGED <<durable, running, lsn, checkpoint, walLock, mp, h, comp,
                           resp, exited, reach, history>>

\* environment: a host becomes unreachable, or reachable again
NetFlip(m) ==
    /\ reach' = [reach EXCEPT ![m] = ~@]
    /\ UNCHANGED <<durable, volatile, history>>

(***************************************************************************)
(* Specification of one node, its peer being a host that answers or not    *)
(***************************************************************************)
SetIn(n, W, M, KQ, VQ) == \E w \in W, method \in M, kq \in KQ, vq \in VQ :
                              SetRequest(n, w, method, kq, vq)

DeleteIn(n, W, M, KQ) == \E w \in W, method \in M, kq \in KQ :
                             DeleteRequest(n, w, method, kq)

GetIn(n, W, M, KQ) == \E w \in W, method \in M, kq \in KQ :
                          GetRequest(n, w, method, kq)

InternalUpdateIn(n, W, M, B) == \E w \in W, method \in M, body \in B :
                                    InternalUpdateRequest(n, w, method, body)

LogReturn(n) == \E w \in Workers : UpdateLogReturn(n, w)

Apply(n) == \E w \in Workers : ApplyRequest(n, w)

EngineWorkers == {"w1"}

Present(S) == {<<x>> : x \in S}

Set(n) == SetIn(n, EngineWorkers, {"GET"}, Present(EngineKeys), Present(EngineValues))

Delete(n) == DeleteIn(n, EngineWorkers, {"GET"}, Present(EngineKeys))

Next ==
    \E n \in EngineNodes :
        \/ Set(n)
        \/ Delete(n)
        \/ LogReturn(n)
        \/ Apply(n)
        \/ UpdateDatabaseBegin(n)
        \/ UpdateDatabaseScan(n)
        \/ UpdateDatabaseCommit(n)
        \/ UpdateDatabaseSetCheckpoint(n)
        \/ UpdateDatabaseTruncate(n)
        \/ UpdateDatabaseWrite(n)
        \/ UpdateDatabaseError(n)
        \/ Ping(n)
        \/ Crash(n)
        \/ Startup(n)
        \/ \E m \in Nodes \ {n} : NetFlip(m)

Spec == Init /\ [][Next]_vars

TypeOK ==
    /\ \A n \in Nodes : lsn[n] \in Nat /\ checkpoint[n] \in Nat
    /\ \A n \in Nodes : walLock[n] \in Workers \cup {""}

(***************************************************************************)
(* What a client reads, and what the log holds                             *)
(***************************************************************************)
AllIdle(n) == \A w \in Workers : h[n][w].pc = "idle"

\* the answer to GET /get?key=k on node n
Read(n, k) == GetResponse(mp[n], "GET", <<k>>)

Found(value) == [status |-> StatusOK, body |-> value]

\* some line of wal.log is the entry of this operation, whatever its LSN
Logged(data, operation, key, value) ==
    \E i \in 1..Len(ScanLines(data)) :
        \E l \in 1..(Len(ScanLines(data)) + 1) :
            ScanLines(data)[i] = FormatEntry(l, operation, key, value)

\* the acknowledged operations ran one after the other and none is under way
Settled(n) == running[n] /\ clean[n] /\ AllIdle(n)

(***************************************************************************)
(* C2: every entry whose append returned success is in wal.log after a     *)
(* crash and a restart, and once the node is up again a read of its key    *)
(* returns the value of the last acknowledged write.                       *)
(* The code does not replay wal.log at startup: the statement fails.       *)
(***************************************************************************)
C2_AckedWriteSurvivesRestart ==
    \A n \in Nodes : \A k \in Keys : \A v \in Values :
        (Settled(n) /\ ack[n][k] = AckSet(v))
            => (Logged(wal[n], SET, k, v) /\ Read(n, k) = Found(v))

(***************************************************************************)
(* C3: after an acknowledged /delete of a key, a restart at any later      *)
(* point leaves /get of the key answering 404.                             *)
(* The code reloads the key from the store when the DELETE was not folded. *)
(***************************************************************************)
C3_DeletedKeyStaysDeleted ==
    \A n \in Nodes : \A k \in Keys :
        (Settled(n) /\ ack[n][k] = AckDelete) => Read(n, k).status = StatusNotFound

C5_CheckpointNeverDecreases ==
    [][\A n \in Nodes :
          /\ checkpoint'[n] >= checkpoint[n]
          /\ LoadCheckpoint(ckptFile'[n]) >= LoadCheckpoint(ckptFile[n])]_vars

(***************************************************************************)
(* C6: a second complete cycle of UpdateDatabase, no entry appended since  *)
(* the first, leaves the store and the checkpoint (in memory and in the    *)
(* file) unchanged.                                                        *)
(* The scan skips checkpoint - 1 lines: the cycle after the first one      *)
(* applies the last line again and moves the checkpoint by one.            *)
(***************************************************************************)
CycleEnds(n) ==
    /\ running[n] /\ running'[n]
    /\ comp[n].pc # "idle"
    /\ comp'[n].pc = "idle"

C6_CompactionIdempotent ==
    [][\A n \in Nodes :
          (CycleEnds(n) /\ prev[n].valid /\ prev'[n].valid)
              => /\ db'[n] = prev[n].db
                 /\ checkpoint'[n] = prev[n].checkpoint
                 /\ ckptFile'[n] = prev[n].ckptFile]_vars

(***************************************************************************)
(* Specification of the request handlers of one node: every shape of       *)
(* request, served one after the other, no compaction and no restart       *)
(***************************************************************************)
HandlerSet(n) == SetIn(n, EngineWorkers, Methods, KeyQueries, ValueQueries)

HandlerDelete(n) == DeleteIn(n, EngineWorkers, Methods, KeyQueries)

HandlerGet(n) == GetIn(n, EngineWorkers, Methods, KeyQueries)

\* a body that is not JSON, and the body of one entry
HandlerBodies == {body \in UpdateBodies :
                     ~body.json \/ body.update = FormatEntry(1, SET, <<"a">>, <<"1">>)}

HandlerInternalUpdate(n) == InternalUpdateIn(n, EngineWorkers, Methods, HandlerBodies)

HandlerNext ==
    \E n \in EngineNodes :
        \/ HandlerSet(n)
        \/ HandlerDelete(n)
        \/ HandlerGet(n)
        \/ HandlerInternalUpdate(n)
        \/ LogReturn(n)
        \/ Apply(n)

HandlerSpec == Init /\ [][HandlerNext]_vars

(***************************************************************************)
(* Specification of the cluster: both nodes serve requests, one worker     *)
(* each, and watch each other with Ping                                    *)
(***************************************************************************)
ClusterValues == {<<"1">>}

\* MaxLog bounds the lines written in the whole cluster
RECURSIVE TotalLines(_)
TotalLines(S) == IF S = {} THEN 0
                 ELSE LET n == CHOOSE x \in S : TRUE
                      IN  Len(ScanLines(wal[n])) + TotalLines(S \ {n})

ClusterSet(n) ==
    /\ TotalLines(Nodes) < MaxLog
    /\ SetIn(n, EngineWorkers, {"GET"}, Present(EngineKeys), Present(ClusterValues))

ClusterDelete(n) ==
    /\ TotalLines(Nodes) < MaxLog
    /\ DeleteIn(n, EngineWorkers, {"GET"}, Present(EngineKeys))

\* the body a peer would post for the /set of the cluster
ClusterBodies == {[json |-> TRUE, update |-> FormatEntry(1, SET, k, v)] :
                      k \in EngineKeys, v \in ClusterValues}

ClusterInternalUpdate(n) == InternalUpdateIn(n, EngineWorkers, {"POST"}, ClusterBodies)

ClusterNext ==
    \E n \in Nodes :
        \/ ClusterSet(n)
        \/ ClusterDelete(n)
        \/ ClusterInternalUpdate(n)
        \/ LogReturn(n)
        \/ Apply(n)
        \/ Ping(n)
        \/ Startup(n)
        \/ NetFlip(n)

ClusterSpec == Init /\ [][ClusterNext]_vars

(***************************************************************************)
(* C1: requests run one after the other on a node that is not restarted:   *)
(* /get of k answers the value of the last /set of k, and 404 when the     *)
(* last operation on k is a /delete or k was never set.                    *)
(* As stated it fails for the empty value and the empty key, which /set    *)
(* accepts and /get answers with 404.                                      *)
(***************************************************************************)
C1_ReadLastWrite ==
    \A n \in Nodes : \A k \in Keys :
        Settled(n) =>
            IF ack[n][k] \in {AckSet(v) : v \in Values}
            THEN Read(n, k) = Found(ack[n][k][2])
            ELSE Read(n, k).status = StatusNotFound

(***************************************************************************)
(* C1 as amended: /get of k answers the value of the last /set of k when   *)
(* k and that value are not empty; it answers 404 when the last operation  *)
(* on k is a /delete, k was never set, the value set is empty or k is      *)
(* empty.                                                                  *)
(***************************************************************************)
C1_ReadLastNonEmptyWrite ==
    \A n \in Nodes : \A k \in Keys :
        Settled(n) =>
            IF ack[n][k] \in {AckSet(v) : v \in Values \ {EmptyString}} /\ k # EmptyString
            THEN Read(n, k) = Found(ack[n][k][2])
            ELSE Read(n, k).status = StatusNotFound

\* a key was set twice, and the second value is the one acknowledged last
C1_Witness ==
    \E n \in Nodes :
        /\ Settled(n)
        /\ ack[n][<<"a">>] = AckSet(<<"2">>)
        /\ Logged(wal[n], SET, <<"a">>, <<"1">>)
        /\ Len(ScanLines(wal[n])) = 2

(***************************************************************************)
(* C7: a /set whose value is longer than 100 bytes or whose key is longer  *)
(* than 50 bytes is answered 400; the log, the LSN and the map are left    *)
(* as they were and the process keeps running.                             *)
(***************************************************************************)
Oversized(kq, vq) ==
    /\ Len(kq) > 0
    /\ Len(vq) > 0
    /\ (Len(kq[1]) > MaxKeyLen \/ Len(vq[1]) > MaxValueLen)

C7_OversizedSetRejected ==
    [][\A n \in Nodes : \A w \in Workers : \A kq \in KeyQueries : \A vq \in ValueQueries :
          (Oversized(kq, vq) /\ SetRequest(n, w, "GET", kq, vq))
              => /\ resp'[n].status = StatusBadRequest
                 /\ wal'[n] = wal[n]
                 /\ lsn'[n] = lsn[n]
                 /\ mp'[n] = mp[n]
                 /\ running'[n]]_vars

\* an oversized /set was refused on a node that holds data
C7_Witness ==
    \E n \in Nodes :
        /\ running[n]
        /\ resp[n].status = StatusBadRequest
        /\ mp[n] # EmptyMap

(***************************************************************************)
(* C8: when the append of a write or delete fails the answer is 500 and    *)
(* the map is left as it was; the map changes only by the operation of a   *)
(* request whose entry is in the log.                                      *)
(***************************************************************************)
C8_IndexNeverAheadOfLog ==
    [][\A n \in Nodes :
          (running[n] /\ running'[n]) =>
              /\ (resp'[n] # resp[n] /\ resp'[n].status = StatusInternalServerError)
                     => mp'[n] = mp[n]
              /\ mp'[n] # mp[n]
                     => \E w \in Workers :
                            /\ h[n][w].pc = "apply"
                            /\ Logged(wal[n], h[n][w].op, h[n][w].key, h[n][w].value)
                            /\ mp'[n] = ApplyToMap(mp[n], h[n][w].op, h[n][w].key, h[n][w].value)]_vars

\* an append failed on a node whose map holds a key
C8_Witness ==
    \E n \in Nodes :
        /\ running[n]
        /\ resp[n].status = StatusInternalServerError
        /\ mp[n] # EmptyMap

(***************************************************************************)
(* C9: B reachable and in the peers of A: every successful /set of x on A  *)
(* is propagated to B, and once nothing is under way /get of x on B        *)
(* answers the value, no other write to x having happened.                 *)
(* Server.SetRequest sends nothing to the peers: the statement fails.      *)
(***************************************************************************)
IsPeer(a, b) == \E i \in 1..Len(peers[a]) : peers[a][i] = Addr(b)

C9_SetReachesPeer ==
    \A a \in Nodes : \A b \in Nodes \ {a} : \A k \in Keys \ {EmptyString} :
        \A v \in Values \ {EmptyString} :
            (/\ Settled(a) /\ Settled(b)
             /\ IsPeer(a, b) /\ reach[b]
             /\ ack[a][k] = AckSet(v)
             /\ ack[b][k] = NoAck)
                => Read(b, k) = Found(v)

(***************************************************************************)
(* C10: a peer of A is in A's peers and does not answer while A serves a   *)
(* /set of a valid key and value: the /set is answered 200, the entry is   *)
(* in A's log, the value is readable on A and the handler does not end     *)
(* the process.                                                            *)
(***************************************************************************)
PeerDown(n) == \E i \in 1..Len(peers[n]) : ~Answers(peers[n][i])

\* the step ends the process from outside the handlers
EndsOutsideHandler(n) == exited'[n] \in {"crash", "panic", "UpdateDatabase", "Ping"}

C10_SetSucceedsWithPeerDown ==
    [][\A n \in Nodes : \A w \in Workers :
          (/\ running[n]
           /\ PeerDown(n)
           /\ h[n][w].op = SET
           /\ h[n][w].pc \in {"locked", "apply"}
           /\ h'[n][w] # h[n][w]
           /\ ~EndsOutsideHandler(n))
              => /\ running'[n]
                 /\ Logged(wal'[n], SET, h[n][w].key, h[n][w].value)
                 /\ h[n][w].pc = "apply"
                        => /\ resp'[n].status = StatusOK
                           /\ MapGet(mp'[n], h[n][w].key) = h[n][w].value]_vars

\* the entry of a /set is written and its peer does not answer
C10_Witness ==
    \E n \in Nodes : \E w \in Workers :
        /\ running[n]
        /\ PeerDown(n)
        /\ h[n][w].op = SET
        /\ h[n][w].pc = "apply"

(***************************************************************************)
(* C11: a body posted to /internal/update a second time (a retry) adds no   *)
(* line to the log of the receiver and leaves its map as it is; a first     *)
(* delivery adds at most one line.                                         *)
(* api.InternalUpdateRequest decodes the body and applies nothing, so no    *)
(* delivery is applied at all.                                             *)
(***************************************************************************)
C11_ReplicatedAtMostOnce ==
    [][\A n \in Nodes : \A w \in Workers : \A body \in UpdateBodies :
          InternalUpdateRequest(n, w, "POST", body)
              => /\ Len(ScanLines(wal'[n])) <= Len(ScanLines(wal[n])) + 1
                 /\ Delivered(n, body.update) >= 1
                        => (wal'[n] = wal[n] /\ mp'[n] = mp[n])]_vars

\* a body was posted twice or more and answered 200
C11_Witness ==
    \E n \in Nodes : \E body \in UpdateBodies :
        /\ running[n]
        /\ body.json
        /\ Delivered(n, body.update) = 2
        /\ resp[n].status = StatusOK

(***************************************************************************)
(* C12: a node whose list of peers is empty, or none of whose peers        *)
(* answers, is not ended for that reason: no cycle of Ping ends the        *)
(* process.                                                                *)
(* nodes.Ping returns false when no peer answered and the loop of main      *)
(* then calls os.Exit(1): the statement fails.                             *)
(***************************************************************************)
C12_NoPeerIsNotFatal ==
    \A n \in Nodes : exited[n] # "Ping"

(***************************************************************************)
(* Specification of a node whose /set requests carry values with a line    *)
(* break or a comma: the handler checks the length of a value only, and    *)
(* UpdateLog writes it as it is, so one request writes two lines, or a     *)
(* line of five fields.  The process restarts after a panic.               *)
(***************************************************************************)
\* value=%0Ax : the second line it writes has one field
BrokenValue == Newline \o <<"x">>

\* value=%0A1,SET,a : the second line it writes reads as a SET entry of LSN 1
\* with no value field
ForgedValue == Newline \o Itoa(1) \o Comma \o SET \o Comma \o <<"a">>

\* value=x,y : the line it writes has five fields
CommaValue == <<"x">> \o Comma \o <<"y">>

RawValues == {<<"1">>, BrokenValue, ForgedValue, CommaValue}

RawSet(n) == SetIn(n, EngineWorkers, {"GET"}, Present(EngineKeys), Present(RawValues))

RawNext ==
    \E n \in EngineNodes :
        \/ RawSet(n)
        \/ LogReturn(n)
        \/ Apply(n)
        \/ UpdateDatabaseBegin(n)
        \/ UpdateDatabaseScan(n)
        \/ UpdateDatabaseCommit(n)
        \/ UpdateDatabaseSetCheckpoint(n)
        \/ UpdateDatabaseTruncate(n)
        \/ UpdateDatabaseWrite(n)
        \/ Startup(n)

RawSpec == Init /\ [][RawNext]_vars

\* the first field of a line of wal.log, where the entry has its LSN
LSNField(lineString) == Split(lineString, ",")[1]

(***************************************************************************)
(* C13: in every reachable state the LSNs the lines of wal.log carry grow  *)
(* strictly from line to line and none is used twice.                      *)
(* A value with a line break puts a line into the log that UpdateLog did    *)
(* not number, and that line can carry an LSN already used: the statement   *)
(* fails.                                                                  *)
(***************************************************************************)
C13_LSNsStrictlyIncreasing ==
    \A n \in Nodes :
        LET lines == ScanLines(wal[n])
        IN  \A i \in 1..Len(lines) : \A j \in 1..Len(lines) :
                (i < j /\ AtoiOk(LSNField(lines[i])) /\ AtoiOk(LSNField(lines[j])))
                    => AtoiVal(LSNField(lines[i])) < AtoiVal(LSNField(lines[j]))

(***************************************************************************)
(* Specification of one node serving two requests at a time, each in its   *)
(* own goroutine; no compaction and no restart                             *)
(***************************************************************************)
ConcurrentSet(n) == SetIn(n, Workers, {"GET"}, Present(EngineKeys), Present(EngineValues))

ConcurrentDelete(n) == DeleteIn(n, Workers, {"GET"}, Present(EngineKeys))

ConcurrentNext ==
    \E n \in EngineNodes :
        \/ ConcurrentSet(n)
        \/ ConcurrentDelete(n)
        \/ LogReturn(n)
        \/ Apply(n)

ConcurrentSpec == Init /\ [][ConcurrentNext]_vars

\* the map that results from the entries of wal.log taken in LSN order
InLogOrder(data) == ApplyBatch(EmptyMap, ScanLines(data))

(***************************************************************************)
(* C14: the writes of a node reach its map in the LSN order of their log   *)
(* entries: once the concurrent requests have completed, the map holds for *)
(* every key the effect of the entry with the largest LSN.                 *)
(* The handler sets the map after UpdateLog released wal.mutex, so the      *)
(* request with the smaller LSN can set the map last: the statement fails.  *)
(***************************************************************************)
C14_IndexFollowsLSNOrder ==
    \A n \in Nodes :
        (running[n] /\ AllIdle(n)) => mp[n] = InLogOrder(wal[n])

(***************************************************************************)
(* C15: while the process of a node has not ended, no line of wal.log is   *)
(* in the batch of two committed transactions of UpdateDatabase, and after *)
(* each complete cycle the checkpoint is the number of lines committed so  *)
(* far.                                                                    *)
(* The scan loop keeps the line at position checkpoint, the last line of    *)
(* the batch before: the statement fails.                                  *)
(***************************************************************************)
FoldedLines(n) == {i \in 1..Len(obs[n].folded) : obs[n].folded[i] >= 1}

C15_NoEntryFoldedTwice ==
    \A n \in Nodes :
        obs[n].crashfree =>
            /\ \A i \in 1..Len(obs[n].folded) : obs[n].folded[i] <= 1
            /\ comp[n].pc = "idle" => checkpoint[n] = Cardinality(FoldedLines(n))

(***************************************************************************)
(* C16: in every reachable state, also after the process ended in the      *)
(* middle of a cycle of UpdateDatabase, the store is the result of         *)
(* applying, in order and from the empty store, the first p lines of       *)
(* wal.log for some p, and these include every line at a position (the      *)
(* first line is 1) below the checkpoint, in memory and in checkpoint.txt.  *)
(***************************************************************************)
\* the number of lines at positions 1 .. c - 1, among total lines
BelowCheckpoint(c, total) == IF c - 1 > total THEN total ELSE IF c < 1 THEN 0 ELSE c - 1

StoreIsPrefix(n, p) == db[n] = ApplyBatch(EmptyMap, SubSeq(ScanLines(wal[n]), 1, p))

C16_StoreIsLogPrefix ==
    \A n \in Nodes :
        \E p \in 0..Len(ScanLines(wal[n])) :
            /\ StoreIsPrefix(n, p)
            /\ p >= BelowCheckpoint(checkpoint[n], Len(ScanLines(wal[n])))
            /\ p >= BelowCheckpoint(LoadCheckpoint(ckptFile[n]), Len(ScanLines(wal[n])))

\* the process ended after a commit and before checkpoint.txt was written,
\* and the node is up again: the store is ahead of the checkpoint
C16_Witness ==
    \E n \in Nodes :
        /\ running[n]
        /\ obs[n].recovering
        /\ db[n] # EmptyMap
        /\ checkpoint[n] = 0
        /\ Len(ScanLines(wal[n])) = 2

(***************************************************************************)
(* C17: a cycle of UpdateDatabase that fails to open or read wal.log or to *)
(* commit its batch leaves the store and the checkpoint, in memory and in  *)
(* checkpoint.txt, as they were, and the file holds the checkpoint the     *)
(* cycle started from: the cycle after the restart scans from there again. *)
(***************************************************************************)
\* the step is UpdateDatabase returning an error before its transaction
\* is committed
FailsBeforeCommit(n) ==
    /\ running[n]
    /\ comp[n].pc \in {"idle", "scan", "commit"}
    /\ exited'[n] = "UpdateDatabase"

C17_FailedCycleChangesNothing ==
    [][\A n \in Nodes :
          FailsBeforeCommit(n)
              => /\ db'[n] = db[n]
                 /\ ckptFile'[n] = ckptFile[n]
                 /\ checkpoint'[n] = checkpoint[n]
                 /\ LoadCheckpoint(ckptFile'[n]) = checkpoint[n]]_vars

\* a cycle failed before its commit while a line waited to be folded
C17_Witness ==
    \E n \in Nodes :
        /\ ~running[n]
        /\ exited[n] = "UpdateDatabase"
        /\ ~obs[n].recovering
        /\ checkpoint[n] = 0
        /\ db[n] = EmptyMap
        /\ Len(ScanLines(wal[n])) >= 1

(***************************************************************************)
(* C18: the process ends after a batch was committed to the store and      *)
(* before the new checkpoint was written to checkpoint.txt; after the      *)
(* restart, the next transaction UpdateDatabase commits leaves the store    *)
(* equal to the application, in order and from the empty store, of the      *)
(* whole log the cycle scanned.                                            *)
(***************************************************************************)
\* the step commits the transaction of a cycle
Commits(n) ==
    /\ running[n]
    /\ comp[n].pc = "commit"
    /\ comp'[n].pc = "setckpt"

C18_RecoveryCycleRestoresStore ==
    [][\A n \in Nodes :
          (obs[n].recovering /\ Commits(n))
              => db'[n] = ApplyBatch(EmptyMap,
                              SubSeq(ScanLines(wal[n]), 1, ScanEnd(comp[n].c, comp[n].lines)))]_vars

\* the first cycle after such an end of the process has committed its batch
\* of two lines onto the store the ended process left
C18_Witness ==
    \E n \in Nodes :
        /\ running[n]
        /\ obs[n].recovered
        /\ comp[n].pc = "setckpt"
        /\ Len(comp[n].lines) = 2
        /\ db[n] = InLogOrder(wal[n])

(***************************************************************************)
(* C19: a line of wal.log with fewer fields than its operation needs       *)
(* (fewer than three, or a SET line without a value field) is skipped by   *)
(* the cycle of UpdateDatabase: the process keeps running, the other lines *)
(* of the batch are committed and the checkpoint moves past the line.      *)
(* A SET line of three fields makes line[3] panic inside the transaction:   *)
(* the statement fails.                                                    *)
(***************************************************************************)
\* a line that has the fields its operation needs
WellFormed(lineString) ==
    LET line == Split(lineString, ",")
    IN  /\ Len(line) >= 3
        /\ line[2] = SET => Len(line) >= 4

\* the cycle is at its transaction and the batch holds a malformed line
AtMalformedBatch(n) ==
    /\ running[n]
    /\ comp[n].pc = "commit"
    /\ \E i \in 1..Len(comp[n].lines) : ~WellFormed(comp[n].lines[i])

C19_MalformedLineSkipped ==
    [][\A n \in Nodes :
          (AtMalformedBatch(n) /\ comp'[n] # comp[n])
              => /\ running'[n]
                 /\ comp'[n].pc = "setckpt"
                 /\ db'[n] = ApplyBatch(db[n], SelectSeq(comp[n].lines, WellFormed))]_vars

(***************************************************************************)
(* C20: an append excludes the scan of wal.log by UpdateDatabase: in no    *)
(* reachable state is the scan under way while a request is between        *)
(* taking and releasing wal.mutex in UpdateLog.                            *)
(* UpdateDatabase holds wal.mutex only inside GetCheckpoint and reads the   *)
(* file with no lock: the statement fails.                                 *)
(***************************************************************************)
C20_AppendExcludesScan ==
    \A n \in Nodes : ~(comp[n].pc = "scan" /\ walLock[n] # "")

(***************************************************************************)
(* C21: the log is only appended to: every step leaves wal.log an          *)
(* extension of what it was; and a step of a cycle of UpdateDatabase       *)
(* leaves wal.log, the LSN and the map as they were.                       *)
(***************************************************************************)
IsExtension(old, new) == Len(old) <= Len(new) /\ SubSeq(new, 1, Len(old)) = old

\* the step is one of a cycle of UpdateDatabase in a process that goes on
CycleStep(n) ==
    /\ running[n] /\ running'[n]
    /\ comp'[n] # comp[n]

C21_LogAppendOnly ==
    [][\A n \in Nodes :
          /\ IsExtension(wal[n], wal'[n])
          /\ CycleStep(n) => /\ wal'[n] = wal[n]
                             /\ lsn'[n] = lsn[n]
                             /\ mp'[n] = mp[n]]_vars

\* a complete cycle has folded a log of two lines on a node whose map holds
\* a key
C21_Witness ==
    \E n \in Nodes :
        /\ running[n]
        /\ comp[n].pc = "idle"
        /\ checkpoint[n] >= 2
        /\ LoadCheckpoint(ckptFile[n]) = checkpoint[n]
        /\ Len(ScanLines(wal[n])) = 2
        /\ mp[n] # EmptyMap

(***************************************************************************)
(* C22: an append that fails leaves the LSN (and the file) as they were,   *)
(* so the next append formats its line with the same LSN; an append that   *)
(* succeeds writes the line it returns, followed by a line break, and      *)
(* advances the LSN by exactly one.                                        *)
(***************************************************************************)
EndsWith(data, suffix) ==
    /\ Len(suffix) <= Len(data)
    /\ SubSeq(data, Len(data) - Len(suffix) + 1, Len(data)) = suffix

\* newLog, the text UpdateLog returns to the handler w that holds wal.mutex
NewLog(n, w) == FormatEntry(lsn[n], h[n][w].op, h[n][w].key, h[n][w].value)

\* UpdateLog has returned an error to a handler: the handler answers 500
AppendFails(n) ==
    /\ running[n] /\ running'[n]
    /\ resp'[n] # resp[n]
    /\ resp'[n].status = StatusInternalServerError

C22_LSNAdvancesOnSuccessOnly ==
    [][\A n \in Nodes :
          /\ AppendFails(n) => lsn'[n] = lsn[n] /\ wal'[n] = wal[n]
          /\ \A w \in Workers :
                /\ (h[n][w].pc = "idle" /\ h'[n][w].pc = "locked")
                      => /\ lsn'[n] = lsn[n]
                         /\ wal'[n] = wal[n] \o FormatEntry(lsn[n], h'[n][w].op, h'[n][w].key,
                                                          h'[n][w].value) \o Newline
                /\ (h[n][w].pc = "locked" /\ h'[n][w].pc = "apply")
                      => /\ lsn'[n] = lsn[n] + 1
                         /\ wal'[n] = wal[n]
                         /\ EndsWith(wal[n], NewLog(n, w) \o Newline)]_vars

\* after one append that succeeded, a second one has failed: the LSN is
\* still 2 and the file still holds one line
C22_Witness ==
    \E n \in Nodes :
        /\ running[n] /\ AllIdle(n)
        /\ obs[n].crashfree
        /\ resp[n].status = StatusInternalServerError
        /\ lsn[n] = 2
        /\ Len(ScanLines(wal[n])) = 1

(***************************************************************************)
(* C23: when a node answers 200 to a write, the entry has been posted to   *)
(* /internal/update of every peer of its list that answers, whatever the   *)
(* other peers do.                                                         *)
(***************************************************************************)
\* the handler w of n answers 200 to its /set or /delete in this step
Acknowledges(n, w) ==
    /\ running[n] /\ running'[n]
    /\ h[n][w].pc = "apply"
    /\ h'[n][w].pc = "idle"

\* the line the handler w, past UpdateLog, has appended
AppendedLog(n, w) == FormatEntry(lsn[n] - 1, h[n][w].op, h[n][w].key, h[n][w].value)

C23_EntrySentToLivePeers ==
    [][\A n \in Nodes : \A w \in Workers :
          Acknowledges(n, w) =>
              \A i \in 1..Len(peers[n]) :
                  Answers(peers[n][i]) => <<peers[n][i], AppendedLog(n, w)>> \in obs'[n].posted]_vars

(***************************************************************************)
(* C24: a node that handles a POST of /internal/update posts nothing to    *)
(* any peer: an entry received is not propagated further.                  *)
(***************************************************************************)
C24_ReceivedEntryNotPropagated ==
    [][\A n \in Nodes : \A w \in Workers : \A body \in UpdateBodies :
          InternalUpdateRequest(n, w, "POST", body) => obs'[n].posted = obs[n].posted]_vars

\* a node with a peer in its list has received an entry, answered 200 and
\* posted nothing
C24_Witness ==
    \E n \in Nodes : \E body \in UpdateBodies :
        /\ running[n]
        /\ body.json
        /\ Delivered(n, body.update) >= 1
        /\ resp[n].status = StatusOK
        /\ Len(peers[n]) >= 1
        /\ obs[n].posted = {}

(***************************************************************************)
(* C25: a POST of /internal/update with a well-formed entry appends one    *)
(* line with the operation, key and value of the entry under the LSN of    *)
(* the receiver, advances that LSN by one and applies the operation to     *)
(* the map of the receiver.                                                *)
(***************************************************************************)
C25_ReceivedEntryLoggedAndApplied ==
    [][\A n \in Nodes : \A w \in Workers : \A body \in UpdateBodies :
          (/\ body.json
           /\ WellFormed(body.update)
           /\ InternalUpdateRequest(n, w, "POST", body))
          => LET line == Split(body.update, ",")
                 value == IF Len(line) >= 4 THEN line[4] ELSE EmptyString
             IN  /\ wal'[n] = wal[n] \o FormatEntry(lsn[n], line[2], line[3], value) \o Newline
                 /\ lsn'[n] = lsn[n] + 1
                 /\ mp'[n] = ApplyToMap(mp[n], line[2], line[3], value)]_vars

(***************************************************************************)
(* Specification of the membership of two nodes whose cluster.txt lists a  *)
(* third host: processes start, ping their peers and end, hosts become     *)
(* unreachable and reachable again                                         *)
(***************************************************************************)
MembershipInit == InitFrom(WideClusterTxt)

MembershipStartup(n) == StartupFrom(WideClusterTxt, n)

MembershipNext ==
    \/ \E n \in Nodes :
          \/ Ping(n)
          \/ Crash(n)
          \/ MembershipStartup(n)
    \/ \E m \in Hosts : NetFlip(m)

MembershipSpec == MembershipInit /\ [][MembershipNext]_vars

(***************************************************************************)
(* C26: the peers of a node are addresses of cluster.txt and never its     *)
(* own address, and no step of a running process adds a peer to the list.  *)
(***************************************************************************)
PeerSet(n) == {peers[n][i] : i \in 1..Len(peers[n])}

Configured == {WideClusterTxt[i] : i \in 1..Len(WideClusterTxt)}

PeersWithinCluster(n) == PeerSet(n) \subseteq Configured \ {Addr(Cname(n))}

C26_PeersWithinCluster ==
    [][\A n \in Nodes :
          /\ PeersWithinCluster(n)
          /\ PeersWithinCluster(n)'
          /\ (running[n] /\ running'[n]) => PeerSet(n)' \subseteq PeerSet(n)]_vars

\* a process that has run since Init has dropped one of its two peers
C26_Witness ==
    \E n \in Nodes :
        /\ running[n]
        /\ obs[n].crashfree
        /\ Len(peers[n]) = 1

(***************************************************************************)
(* C27: when Ping returns, the list of peers holds exactly the peers it    *)
(* held before that answered, and Ping returns false exactly when that     *)
(* list is empty.                                                          *)
(***************************************************************************)
C27_PingKeepsExactlyTheLive ==
    \A n \in Nodes :
        running[n] =>
            /\ PingNodes(n) = PingAnswered(n)
            /\ PingReturn(n) <=> PingNodes(n) # <<>>

(***************************************************************************)
(* C28: after a /set of a key with the empty value that was answered 200,  *)
(* /get of the key answers as for a key that was never set, 404, while     *)
(* the SET entry with the empty value is in wal.log.                       *)
(***************************************************************************)
\* the answer to GET /get?key=k of a node that holds no key
Absent(k) == GetResponse(EmptyMap, "GET", <<k>>)

C28_EmptyValueReadsAsAbsent ==
    \A n \in Nodes : \A k \in Keys :
        (Settled(n) /\ ack[n][k] = AckSet(EmptyString)) =>
            /\ Read(n, k) = Absent(k)
            /\ Read(n, k).status = StatusNotFound
            /\ Logged(wal[n], SET, k, EmptyString)

\* the map holds the key with the empty value, after its /set was answered
C28_Witness ==
    \E n \in Nodes :
        /\ Settled(n)
        /\ ack[n][<<"a">>] = AckSet(EmptyString)
        /\ <<"a">> \in DOMAIN mp[n]
        /\ resp[n].status = StatusOK

(***************************************************************************)
(* C29: the line UpdateLog writes for an operation on a key, read back as  *)
(* UpdateDatabase reads wal.log, is one line whose fields are the LSN, the *)
(* operation, the key and the value; so once a process that has run since  *)
(* Init has folded every line, the store holds for every key the value of  *)
(* the map.                                                                *)
(***************************************************************************)
\* the fields UpdateLog formats into the line of an operation
EntryFields(l, operation, key, value) ==
    IF operation = SET THEN <<Itoa(l), operation, key, value>> ELSE <<Itoa(l), operation, key>>

\* every line of wal.log is below the checkpoint and no cycle is under way
AllFolded(n) ==
    /\ comp[n].pc = "idle"
    /\ ScanFrom(ScanLines(wal[n]), 1, checkpoint[n]) = <<>>

C29_EntryRoundTrip ==
    \A n \in Nodes :
        /\ \A w \in Workers :
              (running[n] /\ h[n][w].pc = "apply") =>
                  /\ ScanLines(AppendedLog(n, w) \o Newline) = <<AppendedLog(n, w)>>
                  /\ Split(AppendedLog(n, w), ",")
                        = EntryFields(lsn[n] - 1, h[n][w].op, h[n][w].key, h[n][w].value)
        /\ (Settled(n) /\ obs[n].crashfree /\ AllFolded(n)) =>
              \A k \in Keys : MapGet(db[n], k) = MapGet(mp[n], k)

(***************************************************************************)
(* Specification of a node that is never stopped and whose file and store  *)
(* operations succeed.  The goroutine of UpdateDatabase wakes up every 5   *)
(* seconds and a handler that holds wal.mutex goes on to release it: the   *)
(* steps of the cycle and of the handlers past their append are taken      *)
(* whenever they stay possible.  Requests arrive or not.                   *)
(***************************************************************************)
UpdateDatabaseStep(n) ==
    \/ UpdateDatabaseBegin(n)
    \/ UpdateDatabaseScan(n)
    \/ UpdateDatabaseCommit(n)
    \/ UpdateDatabaseSetCheckpoint(n)
    \/ UpdateDatabaseTruncate(n)
    \/ UpdateDatabaseWrite(n)

LiveNext ==
    \E n \in EngineNodes :
        \/ Set(n)
        \/ Delete(n)
        \/ LogReturn(n)
        \/ Apply(n)
        \/ UpdateDatabaseStep(n)

Fairness ==
    \A n \in EngineNodes :
        /\ WF_vars(LogReturn(n))
        /\ WF_vars(Apply(n))
        /\ WF_vars(UpdateDatabaseStep(n))

LiveSpec == Init /\ [][LiveNext]_vars /\ Fairness

(***************************************************************************)
(* C30: with the cycle of UpdateDatabase scheduled fairly and no failure,  *)
(* every line appended to wal.log is eventually in a committed             *)
(* transaction; and from some point on the checkpoint no longer changes    *)
(* and the store is what the lines of wal.log give, applied in order.      *)
(***************************************************************************)
\* every line wal.log holds has been in a committed transaction
Caught(n) == FoldedLines(n) = 1..Len(ScanLines(wal[n]))

\* a cycle would find no line to fold, so that the checkpoint stays as it
\* is, and the store is what the lines of wal.log give
Converged(n) ==
    /\ ScanFrom(ScanLines(wal[n]), 1, checkpoint[n]) = <<>>
    /\ db[n] = InLogOrder(wal[n])

CheckpointsAgree(n) == checkpoint[n] = LoadCheckpoint(ckptFile[n])

\* C31, first and second line: a running process between two cycles; third
\* line: UpdateDatabase returns an error in this step, and the checkpoint it
\* leaves in memory is the one the process held when it ended
C31_CheckpointsAgreeOutsideCycle ==
    [][\A n \in Nodes :
          /\ (running[n] /\ comp[n].pc = "idle") => CheckpointsAgree(n)
          /\ (running'[n] /\ comp'[n].pc = "idle") => CheckpointsAgree(n)'
          /\ (running[n] /\ exited'[n] = "UpdateDatabase") => CheckpointsAgree(n)']_vars

====
